---- MODULE Spec2Model ----
(***************************************************************************)
(* Model of the Masterblog Flask application (src/app.py).                 *)
(*                                                                         *)
(* The only persistent state is the backing file data/post.json, a JSON    *)
(* array of posts.  Every request handler is split at its file accesses:   *)
(* one step per call of load_posts() (a whole-file read) and one step per  *)
(* open(.., "w") / json.dump (a whole-file write).  The code between two   *)
(* file accesses touches only the request's own locals and is folded into  *)
(* the step of the file access that precedes it.                           *)
(*                                                                         *)
(* The locals of a handler die when it returns; the request and its        *)
(* response stay visible until the worker takes its next request.          *)
(*                                                                         *)
(* Spec       one worker: requests run to completion one at a time, from   *)
(*            a store with distinct ids                                    *)
(* SpecEmpty  the same, starting from the empty store                      *)
(* SpecDup    the same, the start store may hold duplicate ids             *)
(* SpecConc   the requests of several workers interleave at file accesses  *)
(***************************************************************************)
EXTENDS Integers, Sequences, FiniteSets, TLC

\* ---------------------------------------------------------------- bounds
MaxId == 3          \* one worker: ids of the start store and of request paths; no add beyond it
MaxInit == 2        \* one worker: posts in the start store
MaxConcId == 1      \* the same two for interleaved workers
MaxConcInit == 1

\* the workers of the threaded server: the interleavings studied are those of
\* two requests
Procs == {1, 2}

\* the worker that serves every request when requests do not overlap
Serial == {1}

\* --------------------------------------------------------------- inputs
\* request.form of a submission: the three fields read at lines 69-71 and 123-125
Forms ==
    { [author |-> "A", title |-> "T", content |-> "C"],
      [author |-> "B", title |-> "U", content |-> "D"] }

NoForm == [author |-> "", title |-> "", content |-> ""]

\* <int:post_id> of the delete and update routes: a non-negative integer
PathIds(cap) == 0..cap

\* a post record of the backing file
Post(i, f) == [id |-> i, author |-> f.author, title |-> f.title, content |-> f.content]

InitPosts(cap) == { Post(i, f) : i \in 1..cap, f \in Forms }

\* Python's None (fetch_post_by_id's result when no post matches)
None == [id |-> -1, author |-> "", title |-> "", content |-> ""]

Requests(cap) ==
    { [route |-> "index", method |-> "GET", post_id |-> 0, form |-> NoForm],
      [route |-> "add", method |-> "GET", post_id |-> 0, form |-> NoForm] }
    \cup { [route |-> "add", method |-> "POST", post_id |-> 0, form |-> f] : f \in Forms }
    \cup { [route |-> "delete", method |-> "GET", post_id |-> i, form |-> NoForm] : i \in PathIds(cap) }
    \cup { [route |-> "update", method |-> "GET", post_id |-> i, form |-> NoForm] : i \in PathIds(cap) }
    \cup { [route |-> "update", method |-> "POST", post_id |-> i, form |-> f] : i \in PathIds(cap), f \in Forms }

NoRequest == [route |-> "none", method |-> "GET", post_id |-> 0, form |-> NoForm]

\* ------------------------------------------------------------- responses
NoResponse == [status |-> 0, body |-> ""]
Redirect == [status |-> 302, body |-> "/"]
NotFound == [status |-> 404, body |-> "Post not found"]
ServerError == [status |-> 500, body |-> "Duplicate IDs found in posts"]
Rendered(template) == [status |-> 200, body |-> template]

\* ---------------------------------------------------------------- state
VARIABLES
    file,        \* content of data/post.json: the sequence of posts
    pc,          \* per worker: where its request stands
    req,         \* per worker: the request it serves
    blog_posts,  \* per worker: the handler's local list blog_posts
    new_id,      \* per worker: add's local new_id after the collision loop
    bumps,       \* per worker: how often line 65 (new_id += 1) ran
    post,        \* per worker: update's local post
    resp,        \* per worker: the response of its last request
    stale        \* per worker: another worker wrote the file after this request first read it

vars == <<file, pc, req, blog_posts, new_id, bumps, post, resp, stale>>

locals == <<blog_posts, new_id, bumps, post>>

\* ------------------------------------------------------- pure functions
Ids(posts) == { posts[i].id : i \in 1..Len(posts) }

\* max(post["id"] for post in posts)
MaxOf(S) == CHOOSE m \in S : \A x \in S : x <= m

\* the check compares the list with itself: no duplicate is ever seen
HasDuplicateIds_list(posts) == Len(posts) # Len(posts)

\* load_posts: len(ids) != len(set(ids))
HasDuplicateIds(posts) == Len(posts) # Cardinality(Ids(posts))

\* the maximum itself instead of its successor
get_next_id_max(posts) == IF posts # <<>> THEN MaxOf(Ids(posts)) ELSE 1

\* the number of posts plus one instead of the maximum id plus one
get_next_id_len(posts) == Len(posts) + 1

\* get_next_id, applied to the list load_posts returned
get_next_id(posts) == IF posts # <<>> THEN MaxOf(Ids(posts)) + 1 ELSE 1

\* id_exists
id_exists(post_id, posts) == \E i \in 1..Len(posts) : posts[i].id = post_id

\* while id_exists(new_id, blog_posts): new_id += 1
RECURSIVE CollisionLoop(_, _)
CollisionLoop(id, posts) ==
    IF id_exists(id, posts) THEN CollisionLoop(id + 1, posts) ELSE id

\* the loop variable leaks: without a match the last post scanned is returned
fetch_post_by_id_last(post_id, posts) ==
    IF \E i \in 1..Len(posts) : posts[i].id = post_id
    THEN posts[CHOOSE i \in 1..Len(posts) :
                 /\ posts[i].id = post_id
                 /\ \A j \in 1..(i - 1) : posts[j].id # post_id]
    ELSE IF posts # <<>> THEN posts[Len(posts)] ELSE None

\* fetch_post_by_id's scan: the first post with the id, or None
fetch_post_by_id(post_id, posts) ==
    IF id_exists(post_id, posts)
    THEN posts[CHOOSE i \in 1..Len(posts) :
                 /\ posts[i].id = post_id
                 /\ \A j \in 1..(i - 1) : posts[j].id # post_id]
    ELSE None

\* the comprehension keeps the matching post instead of dropping it
RECURSIVE FilterOut_eq(_, _)
FilterOut_eq(posts, post_id) ==
    IF posts = <<>> THEN <<>>
    ELSE IF Head(posts).id = post_id
         THEN <<Head(posts)>> \o FilterOut_eq(Tail(posts), post_id)
         ELSE FilterOut_eq(Tail(posts), post_id)

\* [post for post in blog_posts if post["id"] != post_id]
RECURSIVE FilterOut(_, _)
FilterOut(posts, post_id) ==
    IF posts = <<>> THEN <<>>
    ELSE IF Head(posts).id # post_id
         THEN <<Head(posts)>> \o FilterOut(Tail(posts), post_id)
         ELSE FilterOut(Tail(posts), post_id)

\* the edited post is appended instead of replacing the stored one
ReplaceFirst_append(posts, post_id, p) ==
    IF \E i \in 1..Len(posts) : posts[i].id = post_id
    THEN Append(posts, p)
    ELSE posts

\* for i, existing_post in enumerate(blog_posts): if id matches: blog_posts[i] = post; break
ReplaceFirst(posts, post_id, p) ==
    IF id_exists(post_id, posts)
    THEN LET i == CHOOSE k \in 1..Len(posts) :
                    /\ posts[k].id = post_id
                    /\ \A j \in 1..(k - 1) : posts[j].id # post_id
         IN [posts EXCEPT ![i] = p]
    ELSE posts

\* the content assignment is missing
Overwrite_no_content(p, f) == [p EXCEPT !.author = f.author, !.title = f.title]

\* post["author"] = form["author"]; post["title"] = ...; post["content"] = ...
Overwrite(p, f) == [p EXCEPT !.author = f.author, !.title = f.title, !.content = f.content]

\* title and content take each other's form field
new_post_swapped(id, f) == [id |-> id, author |-> f.author, title |-> f.content, content |-> f.title]

\* the record built at lines 67-72
new_post(id, f) == [id |-> id, author |-> f.author, title |-> f.title, content |-> f.content]

\* the file is opened for appending
json_dump_append(old, posts) == old \o posts

\* json.dump(posts, file) after open(.., "w"): the file becomes exactly posts
json_dump(old, posts) == posts

\* ---------------------------------------------------------------- start stores
RECURSIVE SeqsUpTo(_, _)
SeqsUpTo(S, n) ==
    IF n = 0 THEN { <<>> }
    ELSE LET shorter == SeqsUpTo(S, n - 1)
         IN shorter \cup { Append(s, x) : s \in { t \in shorter : Len(t) = n - 1 }, x \in S }

AnyStores(cap, len) == SeqsUpTo(InitPosts(cap), len)
ValidStores(cap, len) == { s \in AnyStores(cap, len) : ~HasDuplicateIds(s) }

InitLocals ==
    /\ pc = [p \in Procs |-> "idle"]
    /\ req = [p \in Procs |-> NoRequest]
    /\ blog_posts = [p \in Procs |-> <<>>]
    /\ new_id = [p \in Procs |-> 0]
    /\ bumps = [p \in Procs |-> 0]
    /\ post = [p \in Procs |-> None]
    /\ resp = [p \in Procs |-> NoResponse]
    /\ stale = [p \in Procs |-> FALSE]

Init == file \in ValidStores(MaxId, MaxInit) /\ InitLocals
InitEmpty == file = <<>> /\ InitLocals
InitDup == file \in AnyStores(MaxId, MaxInit) /\ InitLocals
InitConc == file \in ValidStores(MaxConcId, MaxConcInit) /\ InitLocals


\* ---------------------------------------------------------------- steps
Entry(r) ==
    CASE r.route = "index" -> "index"
      [] r.route = "add" /\ r.method = "GET" -> "add_get"
      [] r.route = "add" /\ r.method = "POST" -> "add_load"
      [] r.route = "delete" -> "delete_load"
      [] r.route = "update" -> "update_fetch"

\* the states in which a handler holds data it read from the file
Holding == {"add_next_id", "add_build", "add_write", "delete_write", "update_load", "update_write"}

\* the handler returns: its response goes out and its locals are gone
Finish(p, response) ==
    /\ pc' = [pc EXCEPT ![p] = "done"]
    /\ resp' = [resp EXCEPT ![p] = response]
    /\ blog_posts' = [blog_posts EXCEPT ![p] = <<>>]
    /\ new_id' = [new_id EXCEPT ![p] = 0]
    /\ bumps' = [bumps EXCEPT ![p] = 0]
    /\ post' = [post EXCEPT ![p] = None]

Goto(p, label) ==
    /\ pc' = [pc EXCEPT ![p] = label]
    /\ UNCHANGED resp

\* with open("data/post.json", "w") as file: json.dump(blog_posts, file, indent=4)
WriteFile(p) ==
    /\ file' = json_dump(file, blog_posts[p])
    /\ stale' = [q \in Procs |-> IF q # p /\ pc[q] \in Holding THEN TRUE ELSE stale[q]]

\* a request arrives and is routed to its handler
Start(p, cap) ==
    /\ pc[p] \in {"idle", "done"}
    /\ \E r \in Requests(cap) :
         /\ IF r.route = "add" /\ r.method = "POST"
            THEN get_next_id(file) <= cap
            ELSE TRUE
         /\ req' = [req EXCEPT ![p] = r]
         /\ pc' = [pc EXCEPT ![p] = Entry(r)]
    /\ resp' = [resp EXCEPT ![p] = NoResponse]
    /\ stale' = [stale EXCEPT ![p] = FALSE]
    /\ UNCHANGED <<file, locals>>

\* index: lines 42-43
index(p) ==
    /\ pc[p] = "index"
    /\ IF HasDuplicateIds(file)
       THEN Finish(p, ServerError)
       ELSE Finish(p, Rendered("index.html"))
    /\ UNCHANGED <<file, req, stale>>

\* add, GET: line 80
add_get(p) ==
    /\ pc[p] = "add_get"
    /\ Finish(p, Rendered("add.html"))
    /\ UNCHANGED <<file, req, stale>>

\* add, POST: line 61, blog_posts = load_posts()
add_load(p) ==
    /\ pc[p] = "add_load"
    /\ IF HasDuplicateIds(file)
       THEN Finish(p, ServerError)
       ELSE /\ Goto(p, "add_next_id")
            /\ blog_posts' = [blog_posts EXCEPT ![p] = file]
            /\ UNCHANGED <<new_id, bumps, post>>
    /\ UNCHANGED <<file, req, stale>>

\* add, POST: lines 62-65, new_id = get_next_id() and the collision loop
add_next_id(p) ==
    /\ pc[p] = "add_next_id"
    /\ IF HasDuplicateIds(file)
       THEN Finish(p, ServerError)
       ELSE LET first == get_next_id(file)
                final == CollisionLoop(first, blog_posts[p])
            IN /\ Goto(p, "add_build")
               /\ new_id' = [new_id EXCEPT ![p] = final]
               /\ bumps' = [bumps EXCEPT ![p] = final - first]
               /\ UNCHANGED <<blog_posts, post>>
    /\ UNCHANGED <<file, req, stale>>

\* add, POST: lines 67-74, the record takes get_next_id() again and is appended
add_build(p) ==
    /\ pc[p] = "add_build"
    /\ IF HasDuplicateIds(file)
       THEN Finish(p, ServerError)
       ELSE /\ Goto(p, "add_write")
            /\ blog_posts' = [blog_posts EXCEPT
                   ![p] = Append(@, new_post(get_next_id(file), req[p].form))]
            /\ UNCHANGED <<new_id, bumps, post>>
    /\ UNCHANGED <<file, req, stale>>

\* add, POST: lines 76-78
add_write(p) ==
    /\ pc[p] = "add_write"
    /\ WriteFile(p)
    /\ Finish(p, Redirect)
    /\ UNCHANGED req

\* delete: lines 96-97
delete_load(p) ==
    /\ pc[p] = "delete_load"
    /\ IF HasDuplicateIds(file)
       THEN Finish(p, ServerError)
       ELSE /\ Goto(p, "delete_write")
            /\ blog_posts' = [blog_posts EXCEPT ![p] = FilterOut(file, req[p].post_id)]
            /\ UNCHANGED <<new_id, bumps, post>>
    /\ UNCHANGED <<file, req, stale>>

\* delete: lines 99-102
delete_write(p) ==
    /\ pc[p] = "delete_write"
    /\ WriteFile(p)
    /\ Finish(p, Redirect)
    /\ UNCHANGED req

\* update: lines 117-125 and 139
update_fetch(p) ==
    /\ pc[p] = "update_fetch"
    /\ IF HasDuplicateIds(file)
       THEN Finish(p, ServerError)
       ELSE LET found == fetch_post_by_id(req[p].post_id, file)
            IN IF found = None
               THEN Finish(p, NotFound)
               ELSE IF req[p].method = "POST"
                    THEN /\ Goto(p, "update_load")
                         /\ post' = [post EXCEPT ![p] = Overwrite(found, req[p].form)]
                         /\ UNCHANGED <<blog_posts, new_id, bumps>>
                    ELSE Finish(p, Rendered("update.html"))
    /\ UNCHANGED <<file, req, stale>>

\* update, POST: lines 127-132
update_load(p) ==
    /\ pc[p] = "update_load"
    /\ IF HasDuplicateIds(file)
       THEN Finish(p, ServerError)
       ELSE /\ Goto(p, "update_write")
            /\ blog_posts' = [blog_posts EXCEPT
                   ![p] = ReplaceFirst(file, req[p].post_id, post[p])]
            /\ UNCHANGED <<new_id, bumps, post>>
    /\ UNCHANGED <<file, req, stale>>

\* update, POST: lines 134-137
update_write(p) ==
    /\ pc[p] = "update_write"
    /\ WriteFile(p)
    /\ Finish(p, Redirect)
    /\ UNCHANGED req

\* a handler in progress takes its next step
Run(p) ==
    \/ index(p)
    \/ add_get(p)
    \/ add_load(p)
    \/ add_next_id(p)
    \/ add_build(p)
    \/ add_write(p)
    \/ delete_load(p)
    \/ delete_write(p)
    \/ update_fetch(p)
    \/ update_load(p)
    \/ update_write(p)

\* requests run to completion one at a time
Next == \E p \in Serial : Start(p, MaxId) \/ Run(p)

\* the threaded server: workers interleave at their file accesses
NextConc == \E p \in Procs : Start(p, MaxConcId) \/ Run(p)

Spec == Init /\ [][Next]_vars
SpecEmpty == InitEmpty /\ [][Next]_vars
SpecDup == InitDup /\ [][Next]_vars
SpecConc == InitConc /\ [][NextConc]_vars

\* ---------------------------------------------------------------- properties
Worker(p, route, method) ==
    /\ pc[p] \notin {"idle", "done"}
    /\ req[p].route = route
    /\ req[p].method = method

Served(p, route, method, response) ==
    /\ pc[p] = "done"
    /\ req[p].route = route
    /\ req[p].method = method
    /\ resp[p] = response

DistinctIds(posts) ==
    \A i, j \in 1..Len(posts) : i # j => posts[i].id # posts[j].id

\* C1: with requests served one at a time from a store with pairwise distinct
\* ids, no two posts of the backing file ever share an id.
C1_UniqueIds == DistinctIds(file)

\* an add has grown the store beyond any start store
C1_Witness ==
    \E p \in Procs : Served(p, "add", "POST", Redirect) /\ Len(file) = MaxInit + 1

\* C2: a POST /add served alone leaves the file untouched until it completes,
\* and on completion the file is the previous sequence with one post appended
\* that carries the form's fields and the id 1 (empty store) or max id + 1.
C2_AddAppends ==
    [][\A p \in Procs :
         (Worker(p, "add", "POST") /\ DistinctIds(file)) =>
            IF pc'[p] = "done"
            THEN /\ resp'[p] = Redirect
                 /\ Len(file') = Len(file) + 1
                 /\ SubSeq(file', 1, Len(file)) = file
                 /\ LET added == file'[Len(file')]
                    IN /\ added.author = req[p].form.author
                       /\ added.title = req[p].form.title
                       /\ added.content = req[p].form.content
                       /\ file = <<>> => added.id = 1
                       /\ file # <<>> =>
                            /\ \E i \in 1..Len(file) : added.id = file[i].id + 1
                            /\ \A i \in 1..Len(file) : added.id > file[i].id
            ELSE file' = file]_vars

\* a second add has appended the id after the first one's
C2_Witness ==
    \E p \in Procs :
        /\ Served(p, "add", "POST", Redirect)
        /\ Len(file) >= 2
        /\ file[Len(file)].id = 2
        /\ file[Len(file) - 1].id = 1

\* the sequence without the post at position i
Without(posts, i) == SubSeq(posts, 1, i - 1) \o SubSeq(posts, i + 1, Len(posts))

\* C3: a GET /delete/{id} served alone leaves the file untouched until it
\* completes with a redirect; the file is then the previous sequence without
\* the post of that id, the others in their order, or unchanged if no post
\* has the id.
C3_DeleteRemoves ==
    [][\A p \in Procs :
         (Worker(p, "delete", "GET") /\ DistinctIds(file)) =>
            IF pc'[p] = "done"
            THEN /\ resp'[p] = Redirect
                 /\ IF \E i \in 1..Len(file) : file[i].id = req[p].post_id
                    THEN \E i \in 1..Len(file) :
                            /\ file[i].id = req[p].post_id
                            /\ file' = Without(file, i)
                    ELSE file' = file
            ELSE file' = file]_vars

\* a delete of id 2 has left the posts before and after it
C3_Witness ==
    \E p \in Procs :
        /\ Served(p, "delete", "GET", Redirect)
        /\ req[p].post_id = 2
        /\ Len(file) = 2
        /\ file[1].id = 1
        /\ file[2].id = 3

\* C4: a POST /update/{id} served alone for an id the store holds leaves the
\* file untouched until it completes with a redirect; then the post of that
\* id has the form's author, title and content, its id and its position, and
\* every other post and the number of posts are as before.
C4_UpdateReplaces ==
    [][\A p \in Procs :
         (/\ Worker(p, "update", "POST")
          /\ DistinctIds(file)
          /\ \E i \in 1..Len(file) : file[i].id = req[p].post_id) =>
            IF pc'[p] = "done"
            THEN /\ resp'[p] = Redirect
                 /\ Len(file') = Len(file)
                 /\ \A i \in 1..Len(file) :
                        IF file[i].id = req[p].post_id
                        THEN file'[i] = Post(req[p].post_id, req[p].form)
                        ELSE file'[i] = file[i]
            ELSE file' = file]_vars

\* an update has rewritten the second of three posts
C4_Witness ==
    \E p \in Procs :
        /\ Served(p, "update", "POST", Redirect)
        /\ Len(file) = 3
        /\ file[2] = Post(req[p].post_id, req[p].form)
        /\ file[1].author # file[2].author

\* C5: a GET or POST to /update/{id} for an id no post holds answers 404
\* "Post not found" at its first step, writes nothing and never reads the form
\* into a post.
C5_UpdateNotFound ==
    [][\A p \in Procs :
         (/\ pc[p] = "update_fetch"
          /\ pc'[p] # pc[p]
          /\ DistinctIds(file)
          /\ \A i \in 1..Len(file) : file[i].id # req[p].post_id) =>
            /\ pc'[p] = "done"
            /\ resp'[p] = [status |-> 404, body |-> "Post not found"]
            /\ post'[p] = None
            /\ file' = file]_vars

\* a submission for an id missing from a non-empty store was answered 404
C5_Witness ==
    \E p \in Procs :
        /\ Served(p, "update", "POST", NotFound)
        /\ file # <<>>
        /\ req[p].post_id > 0

\* C6: while the backing file holds two posts with the same id, no step
\* changes the file and every step that loads it ends its request with the
\* duplicate-id failure.
C6_DuplicateIsFatal ==
    [][~DistinctIds(file) =>
         /\ file' = file
         /\ \A p \in Procs :
              (pc[p] \in {"index", "add_load", "delete_load", "update_fetch"}
               /\ pc'[p] # pc[p]) =>
                 /\ pc'[p] = "done"
                 /\ resp'[p] = ServerError]_vars

\* a delete of the duplicated id has failed and left the duplicate in place
C6_Witness ==
    \E p \in Procs :
        /\ Served(p, "delete", "GET", ServerError)
        /\ Len(file) = 2
        /\ file[1].id = file[2].id
        /\ req[p].post_id = file[1].id

\* C7: with requests interleaving at file reads and writes, the backing file
\* still never holds two posts with the same id.
C7_UniqueIdsInterleaved ==
    Cardinality({ file[i].id : i \in 1..Len(file) }) = Len(file)

\* C8: a write discards whatever the file holds: the request completes with a
\* redirect and the file is exactly the list the request built from its own
\* earlier read, whatever other requests wrote in between.
C8_LastWriteWins ==
    [][\A p \in Procs :
         (pc[p] \in {"add_write", "delete_write", "update_write"} /\ pc'[p] = "done") =>
            /\ resp'[p] = Redirect
            /\ file' = blog_posts[p]]_vars

\* two POST /add have both been redirected, q wrote while p held its read, and
\* the file holds no post of q's author
C8_Witness ==
    \E p, q \in Procs :
        /\ p # q
        /\ Served(p, "add", "POST", Redirect)
        /\ Served(q, "add", "POST", Redirect)
        /\ req[p].form # req[q].form
        /\ stale[p]
        /\ \E i \in 1..Len(file) : file[i].author = req[p].form.author
        /\ \A i \in 1..Len(file) : file[i].author # req[q].form.author

\* C9: in a POST /add served alone the collision loop never increments the
\* candidate id, and the record appended carries that first computed id.
C9_LoopIsDead ==
    \A p \in Procs :
        /\ pc[p] \in {"add_build", "add_write"} =>
              /\ bumps[p] = 0
              /\ \A i \in 1..Len(file) : file[i].id < new_id[p]
        /\ pc[p] = "add_write" =>
              blog_posts[p][Len(blog_posts[p])].id = new_id[p]

\* an add is about to write a record with id 3 after two posts
C9_Witness ==
    \E p \in Procs :
        /\ pc[p] = "add_write"
        /\ Len(blog_posts[p]) = 3
        /\ new_id[p] = 3

\* C10: from the empty store, with requests served one at a time, the ids of
\* the file's posts are strictly increasing in file order and at least 1.
C10_IdsIncrease ==
    /\ \A i \in 1..Len(file) : file[i].id >= 1
    /\ \A i \in 1..(Len(file) - 1) : file[i].id < file[i + 1].id

\* adds and a delete have left the ids 2 and 3
C10_Witness ==
    /\ Len(file) = 2
    /\ file[1].id = 2
    /\ file[2].id = 3
    /\ \E p \in Procs : Served(p, "add", "POST", Redirect)

====
